---- MODULE Spec2Model ----
(***************************************************************************)
(* Model of the text segmentation engine of preprocessing.py:              *)
(* count_tokens, force_split_by_char, ensure_max_tokens, balance_segments  *)
(* and split_sentences, and of the generation step of main.py:             *)
(* generate_audio_with_retry run by main for every utterance.              *)
(* A text is a sequence of one-character strings.                          *)
(* Each character of the model stands for one class of characters that     *)
(* the regular expressions of the source tell apart:                       *)
(*   "Z"  a CJK ideograph            U+4E00..U+9FFF                        *)
(*   "a"  a Latin letter             [a-zA-Z]                              *)
(*   "."  a sentence-final mark      the sentence delimiters of line 212   *)
(*   ","  a clause mark              the clause delimiters of line 83      *)
(*   "_"  a blank other than newline (space, tab, U+3000)                  *)
(*   "/"  the newline character                                            *)
(*   ":"  a colon or bracket, standing for every other character          *)
(***************************************************************************)
EXTENDS Integers, Sequences, FiniteSets, TLC

VARIABLES pc, op, text, segments, mode, min_tokens, max_tokens, result, outcome

VARIABLES arg_max_retries, max_retries, mpc, upc, attempt, requests, file, ret

callVars == <<pc, op, text, segments, mode, min_tokens, max_tokens, result, outcome>>

retryVars == <<arg_max_retries, max_retries, mpc, upc, attempt, requests, file, ret>>

vars == <<callVars, retryVars>>

----------------------------------------------------------------------------
(* Bounds of the model *)

MaxLen == 4
MaxSegs == 2
MaxTok == 2
MaxMin == 2
MaxLongLen == 5
MaxLongTok == 3
NumUtts == 2
MaxRetriesArg == 2

----------------------------------------------------------------------------
(* Character classes *)

CJK == {"Z"}
Latin == {"a"}
SentenceMarks == {"."}
ClauseMarks == {","}
NEWLINE == "/"
Whitespace == {"_", NEWLINE}
Brackets == {":"}

Chars == CJK \cup Latin \cup SentenceMarks \cup ClauseMarks \cup Whitespace \cup Brackets
SegChars == CJK \cup Latin \cup ClauseMarks \cup Brackets

SEGMENT_MODE_RAW == "raw"
SEGMENT_MODE_SENTENCE == "sentence"
SEGMENT_MODE_CLAUSE == "clause"

Modes == {SEGMENT_MODE_RAW, SEGMENT_MODE_SENTENCE, SEGMENT_MODE_CLAUSE}

(* a mode string that is none of the three constants *)
OtherMode == "word"

LongChars == CJK \cup Latin \cup SentenceMarks \cup ClauseMarks \cup {"_"}

StringsUpTo(alphabet, n) == UNION {[1..k -> alphabet] : k \in 0..n}

Texts == StringsUpTo(Chars, MaxLen)
LongTexts == StringsUpTo(LongChars, MaxLongLen)

(* the ways of cutting a text into k consecutive, possibly empty, pieces *)
CutPoints(k, n) ==
    {c \in [0..k -> 0..n] :
        /\ c[0] = 0
        /\ c[k] = n
        /\ \A i \in 1..k : c[i - 1] <= c[i]}

Pieces(s, k, c) == [i \in 1..k |-> SubSeq(s, c[i - 1] + 1, c[i])]

(* lists of k segments holding n characters in all *)
SegLists(k, n) ==
    {Pieces(s, k, c) : c \in CutPoints(k, n), s \in [1..n -> SegChars]}

----------------------------------------------------------------------------
(* Generic string helpers *)

RECURSIVE Join(_)
Join(list) ==
    IF list = <<>> THEN <<>> ELSE Head(list) \o Join(Tail(list))

NonEmpty(s) == s # <<>>

strip(s) ==
    LET keep == {i \in DOMAIN s : s[i] \notin Whitespace}
    IN  IF keep = {} THEN <<>>
        ELSE SubSeq(s, CHOOSE i \in keep : \A j \in keep : i <= j,
                       CHOOSE i \in keep : \A j \in keep : i >= j)

RECURSIVE ReSplitLoop(_, _, _, _, _, _)
ReSplitLoop(s, i, delims, keep, parts, cur) ==
    IF i > Len(s) THEN Append(parts, cur)
    ELSE IF s[i] \in delims
         THEN ReSplitLoop(s, i + 1, delims, keep,
                          IF keep THEN parts \o <<cur, <<s[i]>>>>
                                  ELSE Append(parts, cur),
                          <<>>)
         ELSE ReSplitLoop(s, i + 1, delims, keep, parts, Append(cur, s[i]))

re_split(delims, keep, s) == ReSplitLoop(s, 1, delims, keep, <<>>, <<>>)

----------------------------------------------------------------------------
(* count_tokens *)

count_tokens(s) ==
    LET chinese_chars == Cardinality({i \in DOMAIN s : s[i] \in CJK})
        english_words == Cardinality({i \in DOMAIN s :
                            /\ s[i] \in Latin
                            /\ (i = 1 \/ s[i - 1] \notin Latin)})
    IN  chinese_chars + ((3 * english_words) \div 2)

----------------------------------------------------------------------------
(* force_split_by_char *)

Flush(res, current) == IF current # <<>> THEN Append(res, current) ELSE res

RECURSIVE ForceSplitLoop(_, _, _, _, _)
ForceSplitLoop(s, i, maxt, res, current) ==
    IF i > Len(s) THEN Flush(res, current)
    ELSE LET char == <<s[i]>>
         IN  IF count_tokens(current \o char) <= maxt
             THEN ForceSplitLoop(s, i + 1, maxt, res, current \o char)
             ELSE ForceSplitLoop(s, i + 1, maxt, Flush(res, current), char)

force_split_by_char_loose(s, maxt) == ForceSplitLoop(s, 1, maxt + 1, <<>>, <<>>)

force_split_by_char(s, maxt) == ForceSplitLoop(s, 1, maxt, <<>>, <<>>)

----------------------------------------------------------------------------
(* ensure_max_tokens *)

SplitClauseDrop(s) == re_split(ClauseMarks, FALSE, s)

SplitClauseKeep(s) == re_split(ClauseMarks, TRUE, s)

FlushUnsplit(res, current, maxt) ==
    IF current # <<>> THEN Append(res, current) ELSE res

FlushBounded(res, current, maxt) ==
    IF current # <<>>
    THEN IF count_tokens(current) > maxt
         THEN res \o force_split_by_char(current, maxt)
         ELSE Append(res, current)
    ELSE res

RECURSIVE EnsureLoop(_, _, _, _, _)
EnsureLoop(parts, i, maxt, res, current) ==
    IF i > Len(parts) THEN FlushBounded(res, current, maxt)
    ELSE LET part == parts[i]
         IN  IF count_tokens(current \o part) <= maxt
             THEN EnsureLoop(parts, i + 1, maxt, res, current \o part)
             ELSE EnsureLoop(parts, i + 1, maxt,
                             FlushBounded(res, current, maxt), part)

ensure_max_tokens(s, maxt) ==
    IF count_tokens(s) <= maxt THEN <<s>>
    ELSE EnsureLoop(SplitClauseKeep(s), 1, maxt, <<>>, <<>>)

----------------------------------------------------------------------------
(* balance_segments *)

RECURSIVE Atomic(_, _)
Atomic(segs, maxt) ==
    IF segs = <<>> THEN <<>>
    ELSE ensure_max_tokens(Head(segs), maxt) \o Atomic(Tail(segs), maxt)

CanMergeStrict(current_tokens, piece_tokens, maxt) ==
    current_tokens + piece_tokens < maxt

CanMerge(current_tokens, piece_tokens, maxt) ==
    current_tokens + piece_tokens <= maxt

RECURSIVE GreedyMerge(_, _, _, _, _, _)
GreedyMerge(atomic, i, maxt, res, current, current_tokens) ==
    IF i > Len(atomic) THEN Flush(res, current)
    ELSE LET piece == atomic[i]
             piece_tokens == count_tokens(piece)
         IN  IF CanMerge(current_tokens, piece_tokens, maxt)
             THEN GreedyMerge(atomic, i + 1, maxt, res, current \o piece,
                              current_tokens + piece_tokens)
             ELSE GreedyMerge(atomic, i + 1, maxt, Flush(res, current),
                              piece, piece_tokens)

TailFixupInclusive(res, mint, maxt) ==
    IF Len(res) >= 2
    THEN LET last_tokens == count_tokens(res[Len(res)])
             combined == res[Len(res) - 1] \o res[Len(res)]
         IN  IF last_tokens <= mint /\ count_tokens(combined) <= maxt
             THEN Append(SubSeq(res, 1, Len(res) - 2), combined)
             ELSE res
    ELSE res

TailFixup(res, mint, maxt) ==
    IF Len(res) >= 2
    THEN LET last_tokens == count_tokens(res[Len(res)])
             combined == res[Len(res) - 1] \o res[Len(res)]
         IN  IF last_tokens < mint /\ count_tokens(combined) <= maxt
             THEN Append(SubSeq(res, 1, Len(res) - 2), combined)
             ELSE res
    ELSE res

balance_segments(segs, mint, maxt) ==
    IF segs = <<>> THEN segs
    ELSE LET atomic == Atomic(segs, maxt)
         IN  IF atomic = <<>> THEN <<>>
             ELSE IF Len(atomic) = 1 THEN atomic
             ELSE TailFixup(GreedyMerge(atomic, 1, maxt, <<>>, <<>>, 0),
                            mint, maxt)

----------------------------------------------------------------------------
(* split_sentences *)

delimiter_pattern(m) ==
    IF m = SEGMENT_MODE_CLAUSE THEN SentenceMarks \cup ClauseMarks
    ELSE SentenceMarks

(* index of the first character at or after i that is not whitespace *)
BlankEnd(s, i) ==
    CHOOSE k \in i..(Len(s) + 1) :
        /\ (k = Len(s) + 1 \/ s[k] \notin Whitespace)
        /\ \A m \in i..(k - 1) : s[m] \in Whitespace

BreakLosing(left, right) == <<left, NEWLINE>>

BreakReplacement(left, right) == <<left, NEWLINE, right>>

RECURSIVE InsertBreaksLoop(_, _, _)
InsertBreaksLoop(s, i, out) ==
    IF i > Len(s) THEN out
    ELSE LET j == BlankEnd(s, i + 1)
         IN  IF /\ s[i] \in CJK
                /\ j > i + 1
                /\ j <= Len(s)
                /\ s[j] \in CJK
             THEN InsertBreaksLoop(s, j + 1, out \o BreakReplacement(s[i], s[j]))
             ELSE InsertBreaksLoop(s, i + 1, Append(out, s[i]))

InsertBreaks(s) == InsertBreaksLoop(s, 1, <<>>)

SplitLines(s) == re_split({NEWLINE}, FALSE, s)

RECURSIVE StripAll(_)
StripAll(list) ==
    IF list = <<>> THEN <<>> ELSE <<strip(Head(list))>> \o StripAll(Tail(list))

SegmentSentences(segment, delims) ==
    LET seg == strip(segment)
    IN  IF seg = <<>> THEN <<>>
        ELSE LET sub_sentences == SelectSeq(re_split(delims, FALSE, seg), NonEmpty)
             IN  IF sub_sentences # <<>>
                 THEN SelectSeq(StripAll(sub_sentences), NonEmpty)
                 ELSE <<seg>>

RECURSIVE CollectSentences(_, _)
CollectSentences(segs, delims) ==
    IF segs = <<>> THEN <<>>
    ELSE SegmentSentences(Head(segs), delims) \o CollectSentences(Tail(segs), delims)

SplitNonRaw(s, m, mint, maxt) ==
    LET sentences == CollectSentences(SplitLines(InsertBreaks(s)), delimiter_pattern(m))
    IN  IF m = SEGMENT_MODE_SENTENCE
        THEN balance_segments(sentences, mint, maxt)
        ELSE sentences

split_sentences_stripped(s, m, mint, maxt) ==
    IF m = SEGMENT_MODE_RAW THEN <<strip(s)>>
    ELSE SplitNonRaw(s, m, mint, maxt)

split_sentences(s, m, mint, maxt) ==
    IF m = SEGMENT_MODE_RAW THEN <<s>>
    ELSE SplitNonRaw(s, m, mint, maxt)

----------------------------------------------------------------------------
(* strip_punctuation: imported by the tests from preprocessing, where it   *)
(* is not defined; modelled from section 4.5 of the specification.         *)

LeadingStrip == SentenceMarks \cup ClauseMarks \cup Brackets

TrailingStrip == ClauseMarks \cup Brackets

TrailingStripAll == SentenceMarks \cup ClauseMarks \cup Brackets

RECURSIVE StripLeading(_)
StripLeading(s) ==
    IF s # <<>> /\ Head(s) \in LeadingStrip THEN StripLeading(Tail(s)) ELSE s

RECURSIVE StripTrailing(_, _)
StripTrailing(s, class) ==
    IF s # <<>> /\ s[Len(s)] \in class
    THEN StripTrailing(SubSeq(s, 1, Len(s) - 1), class)
    ELSE s

strip_punctuation_greedy(s) == StripTrailing(StripLeading(s), TrailingStripAll)

strip_punctuation(s) == StripTrailing(StripLeading(s), TrailingStrip)

----------------------------------------------------------------------------
(* main.py: the generation step of main and generate_audio_with_retry *)

DEFAULT_MAX_RETRIES == 3

Utts == 1..NumUtts

NoResult == [fields |-> 0, success |-> FALSE, status |-> "none"]

(* the retry machinery at rest, for the specifications of single calls *)
RetryIdle ==
    /\ arg_max_retries = 0
    /\ max_retries = 0
    /\ mpc = "idle"
    /\ upc = [u \in Utts |-> "idle"]
    /\ attempt = [u \in Utts |-> 0]
    /\ requests = [u \in Utts |-> 0]
    /\ file = [u \in Utts |-> "absent"]
    /\ ret = [u \in Utts |-> NoResult]

EffectiveRetries(n) == IF n # 0 THEN n ELSE DEFAULT_MAX_RETRIES

----------------------------------------------------------------------------
(* State machine: one call of one function on inputs drawn from the bounded sets *)

Ops == {"split_sentences", "balance_segments", "ensure_max_tokens", "force_split_by_char",
        "strip_punctuation"}

(* the function about to be called and its scalar arguments *)
Init ==
    /\ pc = "start"
    /\ op \in Ops
    /\ mode \in (IF op = "split_sentences" THEN Modes \cup {OtherMode}
                   ELSE {SEGMENT_MODE_RAW})
    /\ min_tokens \in (IF op = "balance_segments" \/ (op = "split_sentences" /\ mode \in Modes)
                         THEN 0..MaxMin ELSE {0})
    /\ max_tokens \in (IF op \in {"split_sentences", "balance_segments"}
                         THEN 0..MaxTok
                         ELSE IF op = "strip_punctuation" THEN {0}
                         ELSE (-1)..MaxTok)
    /\ text = <<>>
    /\ segments = <<>>
    /\ result = <<>>
    /\ outcome = "none"
    /\ RetryIdle

CallSplitSentences ==
    /\ pc = "start"
    /\ op = "split_sentences"
    /\ \E s \in Texts :
        /\ text' = s
        /\ result' = split_sentences(s, mode, min_tokens, max_tokens)
    /\ pc' = "done"
    /\ outcome' = "returned"
    /\ UNCHANGED <<op, segments, mode, min_tokens, max_tokens>>
    /\ UNCHANGED retryVars

CallBalanceSegments ==
    /\ pc = "start"
    /\ op = "balance_segments"
    /\ \E k \in 0..MaxSegs, n \in 0..MaxLen : \E segs \in SegLists(k, n) :
        /\ segments' = segs
        /\ result' = balance_segments(segs, min_tokens, max_tokens)
    /\ pc' = "done"
    /\ outcome' = "returned"
    /\ UNCHANGED <<op, text, mode, min_tokens, max_tokens>>
    /\ UNCHANGED retryVars

CallEnsureMaxTokens ==
    /\ pc = "start"
    /\ op = "ensure_max_tokens"
    /\ \E s \in Texts :
        /\ text' = s
        /\ result' = ensure_max_tokens(s, max_tokens)
    /\ pc' = "done"
    /\ outcome' = "returned"
    /\ UNCHANGED <<op, segments, mode, min_tokens, max_tokens>>
    /\ UNCHANGED retryVars

CallForceSplitByChar ==
    /\ pc = "start"
    /\ op = "force_split_by_char"
    /\ \E s \in Texts :
        /\ text' = s
        /\ result' = force_split_by_char(s, max_tokens)
    /\ pc' = "done"
    /\ outcome' = "returned"
    /\ UNCHANGED <<op, segments, mode, min_tokens, max_tokens>>
    /\ UNCHANGED retryVars

CallStripPunctuation ==
    /\ pc = "start"
    /\ op = "strip_punctuation"
    /\ \E s \in Texts :
        /\ text' = s
        /\ result' = <<strip_punctuation(s)>>
    /\ pc' = "done"
    /\ outcome' = "returned"
    /\ UNCHANGED <<op, segments, mode, min_tokens, max_tokens>>
    /\ UNCHANGED retryVars

Next ==
    \/ CallSplitSentences
    \/ CallBalanceSegments
    \/ CallEnsureMaxTokens
    \/ CallForceSplitByChar
    \/ CallStripPunctuation

Spec == Init /\ [][Next]_vars

----------------------------------------------------------------------------
(* Calls of split_sentences as main makes them: a valid splitting mode,    *)
(* min_tokens <= max_tokens, on longer texts over fewer character classes. *)

InitLong ==
    /\ pc = "start"
    /\ op = "split_sentences"
    /\ mode \in {SEGMENT_MODE_SENTENCE, SEGMENT_MODE_CLAUSE}
    /\ max_tokens \in 0..MaxLongTok
    /\ min_tokens \in 0..max_tokens
    /\ text = <<>>
    /\ segments = <<>>
    /\ result = <<>>
    /\ outcome = "none"
    /\ RetryIdle

CallSplitSentencesLong ==
    /\ pc = "start"
    /\ op = "split_sentences"
    /\ \E s \in LongTexts :
        /\ text' = s
        /\ result' = split_sentences(s, mode, min_tokens, max_tokens)
    /\ pc' = "done"
    /\ outcome' = "returned"
    /\ UNCHANGED <<op, segments, mode, min_tokens, max_tokens>>
    /\ UNCHANGED retryVars

NextLong == CallSplitSentencesLong

SpecLong == InitLong /\ [][NextLong]_vars

----------------------------------------------------------------------------
(* A run of main from argument parsing to the summary.  The worker threads *)
(* of the executor interleave freely, one utterance each.  An output file  *)
(* is absent, holds a WAV that get_wav_duration reads ("valid"), or holds  *)
(* bytes on which get_wav_duration raises ("invalid").                     *)

InitRetry ==
    /\ pc = "start"
    /\ op = "main"
    /\ text = <<>>
    /\ segments = <<>>
    /\ mode = SEGMENT_MODE_SENTENCE
    /\ min_tokens = 0
    /\ max_tokens = 0
    /\ result = <<>>
    /\ outcome = "none"
    /\ arg_max_retries \in 0..MaxRetriesArg
    /\ max_retries = 0
    /\ mpc = "args"
    /\ upc = [u \in Utts |-> "idle"]
    /\ attempt = [u \in Utts |-> 0]
    /\ requests = [u \in Utts |-> 0]
    /\ file \in [Utts -> {"absent", "valid", "invalid"}]
    /\ ret = [u \in Utts |-> NoResult]

(* main reads the retry configuration and submits one task per utterance *)
SubmitTasks ==
    /\ mpc = "args"
    /\ max_retries' = EffectiveRetries(arg_max_retries)
    /\ upc' = [u \in Utts |-> "queued"]
    /\ mpc' = "generate"
    /\ UNCHANGED <<arg_max_retries, attempt, requests, file, ret>>
    /\ UNCHANGED callVars

(* generate_audio_with_retry up to the start of the loop *)
CheckExisting(u) ==
    /\ mpc = "generate"
    /\ upc[u] = "queued"
    /\ IF file[u] = "valid"
       THEN /\ ret' = [ret EXCEPT ![u] = [fields |-> 6, success |-> TRUE, status |-> "skipped"]]
            /\ upc' = [upc EXCEPT ![u] = "returned"]
       ELSE IF file[u] = "invalid"
       THEN /\ upc' = [upc EXCEPT ![u] = "raised"]
            /\ ret' = ret
       ELSE /\ upc' = [upc EXCEPT ![u] = "loop"]
            /\ ret' = ret
    /\ attempt' = [attempt EXCEPT ![u] = 0]
    /\ UNCHANGED <<arg_max_retries, max_retries, mpc, requests, file>>
    /\ UNCHANGED callVars

(* one iteration of the loop: the request fails, or it succeeds and the    *)
(* file is written, after which get_wav_duration raises or returns         *)
Attempt(u) ==
    /\ mpc = "generate"
    /\ upc[u] = "loop"
    /\ attempt[u] <= max_retries
    /\ requests' = [requests EXCEPT ![u] = @ + 1]
    /\ \E answer \in {"request_failed", "bad_wav", "ok"} :
        /\ file' = [file EXCEPT ![u] = IF answer = "request_failed" THEN @
                                        ELSE IF answer = "bad_wav" THEN "invalid"
                                        ELSE "valid"]
        /\ IF answer = "ok"
           THEN /\ ret' = [ret EXCEPT ![u] = [fields |-> 5, success |-> TRUE, status |-> "generated"]]
                /\ upc' = [upc EXCEPT ![u] = "returned"]
                /\ attempt' = attempt
           ELSE /\ attempt' = [attempt EXCEPT ![u] = @ + 1]
                /\ UNCHANGED <<ret, upc>>
    /\ UNCHANGED <<arg_max_retries, max_retries, mpc>>
    /\ UNCHANGED callVars

(* the loop is exhausted *)
GiveUp(u) ==
    /\ mpc = "generate"
    /\ upc[u] = "loop"
    /\ attempt[u] > max_retries
    /\ ret' = [ret EXCEPT ![u] = [fields |-> 5, success |-> FALSE, status |-> "failed"]]
    /\ upc' = [upc EXCEPT ![u] = "returned"]
    /\ UNCHANGED <<arg_max_retries, max_retries, mpc, attempt, requests, file>>
    /\ UNCHANGED callVars

(* main collects the results of the futures; future.result() re-raises *)
Collect ==
    /\ mpc = "generate"
    /\ \A u \in Utts : upc[u] \in {"returned", "raised"}
    /\ mpc' = IF \E u \in Utts : upc[u] = "raised" THEN "crashed" ELSE "summary"
    /\ UNCHANGED <<arg_max_retries, max_retries, upc, attempt, requests, file, ret>>
    /\ UNCHANGED callVars

(* summary, concatenation and SRT: each unpacks six fields of every result *)
Summary ==
    /\ mpc = "summary"
    /\ mpc' = IF \A u \in Utts : ret[u].fields = 6 THEN "done" ELSE "crashed"
    /\ UNCHANGED <<arg_max_retries, max_retries, upc, attempt, requests, file, ret>>
    /\ UNCHANGED callVars

NextRetry ==
    \/ SubmitTasks
    \/ \E u \in Utts : CheckExisting(u)
    \/ \E u \in Utts : Attempt(u)
    \/ \E u \in Utts : GiveUp(u)
    \/ Collect
    \/ Summary

SpecRetry == InitRetry /\ [][NextRetry]_vars

----------------------------------------------------------------------------
(* Vocabulary of the properties *)

Done(name) == pc = "done" /\ op = name

Segmenting == Done("split_sentences") /\ mode \in {SEGMENT_MODE_SENTENCE, SEGMENT_MODE_CLAUSE}

AllBounded == \A i \in DOMAIN result : count_tokens(result[i]) <= max_tokens

Content(s) == SelectSeq(s, LAMBDA c : c \notin (SentenceMarks \cup ClauseMarks \cup Whitespace))

Delimiters == SentenceMarks \cup ClauseMarks

LeadingPunctuation == SentenceMarks \cup ClauseMarks \cup Brackets

HasChar(s, class) == \E i \in DOMAIN s : s[i] \in class

Last(s) == s[Len(s)]

RECURSIVE SumTokens(_)
SumTokens(list) ==
    IF list = <<>> THEN 0 ELSE count_tokens(Head(list)) + SumTokens(Tail(list))

(* a text made of sentences, each a run of letters or ideographs ended by one mark *)
MarkedSentences(s) ==
    /\ Len(s) >= 2
    /\ \A i \in DOMAIN s : s[i] \in CJK \cup Latin \cup SentenceMarks
    /\ s[1] \notin SentenceMarks
    /\ Last(s) \in SentenceMarks
    /\ \A i \in 1..(Len(s) - 1) : ~(s[i] \in SentenceMarks /\ s[i + 1] \in SentenceMarks)

----------------------------------------------------------------------------
(* C1: in mode sentence or clause, with max_tokens >= 1, every chunk       *)
(* returned by split_sentences has a token estimate of at most max_tokens. *)
C1_ChunksBounded ==
    (Segmenting /\ max_tokens >= 1) => AllBounded

(* C2: in mode sentence or clause, the input and the concatenation of the  *)
(* returned chunks are the same sequence of characters once delimiters and *)
(* whitespace are deleted from both.                                       *)
C2_ContentPreserved ==
    Segmenting => Content(Join(result)) = Content(text)

C2_Witness ==
    /\ Segmenting
    /\ Len(result) >= 2
    /\ HasChar(text, Whitespace)
    /\ HasChar(text, Delimiters)
    /\ Len(Content(text)) >= 2

(* C3: in mode sentence or clause, no returned chunk begins with a         *)
(* delimiter or bracket punctuation character.                             *)
C3_NoLeadingPunctuation ==
    Segmenting =>
        \A i \in DOMAIN result :
            result[i] # <<>> => result[i][1] \notin LeadingPunctuation

(* C4: in mode sentence, no returned chunk ends with a clause mark.        *)
C4_NoTrailingClauseMark ==
    (Done("split_sentences") /\ mode = SEGMENT_MODE_SENTENCE) =>
        \A i \in DOMAIN result :
            result[i] # <<>> => Last(result[i]) \notin ClauseMarks

(* C5: in mode sentence, for an input made of sentences each ended by a    *)
(* sentence-final mark, at least one returned chunk ends with a            *)
(* sentence-final mark.                                                    *)
C5_SentenceEndingKept ==
    (Done("split_sentences") /\ mode = SEGMENT_MODE_SENTENCE /\ MarkedSentences(text)) =>
        \E i \in DOMAIN result :
            result[i] # <<>> /\ Last(result[i]) \in SentenceMarks

(* C6: in mode raw, split_sentences returns the one-element list holding   *)
(* the input text unchanged, whatever the bounds.                          *)
C6_RawIsIdentity ==
    (Done("split_sentences") /\ mode = SEGMENT_MODE_RAW) => result = <<text>>

C6_Witness ==
    /\ Done("split_sentences")
    /\ mode = SEGMENT_MODE_RAW
    /\ Len(text) >= 3
    /\ text[1] \in Whitespace
    /\ HasChar(text, Delimiters)
    /\ count_tokens(text) > max_tokens
    /\ result = <<text>>

(* C7: with max_tokens >= 1, every chunk returned by balance_segments has  *)
(* a token estimate of at most max_tokens.                                 *)
C7_BalanceBounded ==
    (Done("balance_segments") /\ max_tokens >= 1) => AllBounded

(* C8: with max_tokens >= 1, every piece returned by ensure_max_tokens and *)
(* every piece returned by force_split_by_char has a token estimate of at  *)
(* most max_tokens.                                                        *)
C8_PiecesBounded ==
    ((Done("ensure_max_tokens") \/ Done("force_split_by_char")) /\ max_tokens >= 1)
        => AllBounded

C8_Witness ==
    /\ Done("ensure_max_tokens")
    /\ max_tokens >= 1
    /\ count_tokens(text) > max_tokens
    /\ ~HasChar(text, ClauseMarks)
    /\ Len(result) >= 2
    /\ \E i \in DOMAIN result : count_tokens(result[i]) = max_tokens

(* C9: the in-order concatenation of the pieces returned by                *)
(* ensure_max_tokens, and of those returned by force_split_by_char, is the *)
(* input text exactly, for every max_tokens.                               *)
C9_ConcatenationIsText ==
    (Done("ensure_max_tokens") \/ Done("force_split_by_char")) => Join(result) = text

C9_Witness ==
    /\ Done("ensure_max_tokens")
    /\ count_tokens(text) > max_tokens
    /\ HasChar(text, ClauseMarks)
    /\ HasChar(text, Whitespace)
    /\ Len(result) >= 2

(* C10: for a non-empty list of non-empty segments whose token estimates   *)
(* sum to at most max_tokens, balance_segments returns exactly one chunk,  *)
(* the in-order concatenation of the segments, whatever min_tokens is.     *)
C10_SmallInputMergesToOne ==
    ( /\ Done("balance_segments")
      /\ segments # <<>>
      /\ \A i \in DOMAIN segments : segments[i] # <<>>
      /\ SumTokens(segments) <= max_tokens )
        => result = <<Join(segments)>>

C10_Witness ==
    /\ Done("balance_segments")
    /\ Len(segments) >= 2
    /\ \A i \in DOMAIN segments : segments[i] # <<>>
    /\ SumTokens(segments) = max_tokens
    /\ max_tokens >= 2
    /\ count_tokens(Last(segments)) < min_tokens
    /\ result = <<Join(segments)>>

(* C11: in mode sentence, with max_tokens = m >= 1, a text of n CJK         *)
(* characters and nothing else is returned as ceil(n/m) chunks, in order,  *)
(* each of exactly m tokens except the last, which holds the remainder.    *)
C11_CjkRunSplitEvenly ==
    ( /\ Done("split_sentences")
      /\ mode = SEGMENT_MODE_SENTENCE
      /\ max_tokens >= 1
      /\ \A k \in DOMAIN text : text[k] \in CJK )
        => LET n == Len(text)
               m == max_tokens
               q == (n + m - 1) \div m
           IN  /\ Len(result) = q
               /\ Join(result) = text
               /\ \A i \in 1..q :
                    count_tokens(result[i]) = IF i < q THEN m ELSE n - (q - 1) * m

C11_Witness ==
    /\ Done("split_sentences")
    /\ mode = SEGMENT_MODE_SENTENCE
    /\ max_tokens >= 2
    /\ \A k \in DOMAIN text : text[k] \in CJK
    /\ Len(text) > max_tokens
    /\ Len(text) % max_tokens # 0
    /\ Len(result) >= 2
    /\ count_tokens(Last(result)) < min_tokens

(* C12: strip_punctuation removes every leading punctuation or bracket     *)
(* character, removes trailing characters only while they are clause marks *)
(* or brackets, and keeps a trailing sentence-final mark without stripping *)
(* past it.                                                                *)
C12_StripPunctuation ==
    Done("strip_punctuation") =>
        /\ Len(result) = 1
        /\ LET r == result[1]
               n == Len(text)
           IN  /\ \E a, b \in 0..n :
                    /\ a + b <= n
                    /\ r = SubSeq(text, a + 1, n - b)
                    /\ \A k \in 1..a : text[k] \in LeadingPunctuation
                    /\ \A k \in (n - b + 1)..n :
                         text[k] \in (IF r = <<>> THEN LeadingPunctuation
                                      ELSE ClauseMarks \cup Brackets)
               /\ r # <<>> => /\ r[1] \notin LeadingPunctuation
                              /\ Last(r) \notin ClauseMarks \cup Brackets
               /\ text = <<",", "Z", "Z">> => r = <<"Z", "Z">>
               /\ text = <<"Z", "Z", ",">> => r = <<"Z", "Z">>
               /\ text = <<"Z", "Z", ".">> => r = <<"Z", "Z", ".">>
               /\ text = <<",", "Z", "Z", ".">> => r = <<"Z", "Z", ".">>

C12_Witness ==
    /\ Done("strip_punctuation")
    /\ Len(text) = 4
    /\ text[1] \in LeadingPunctuation
    /\ text[2] \in CJK
    /\ text[3] \in SentenceMarks
    /\ text[4] \in ClauseMarks
    /\ result = <<<<text[2], text[3]>>>>

(* C13: a call of split_sentences with a mode that is none of raw,         *)
(* sentence, clause ends in an error and returns no list of chunks.        *)
C13_InvalidModeFails ==
    (Done("split_sentences") /\ mode \notin Modes) => outcome = "raised"

(* C14: in mode sentence or clause, split_sentences never emits a chunk    *)
(* made solely of delimiter characters.                                    *)
C14_NoDelimiterOnlyChunk ==
    Segmenting =>
        \A i \in DOMAIN result :
            \E k \in DOMAIN result[i] : result[i][k] \notin Delimiters

(* C18: when ensure_max_tokens splits a text whose estimate exceeds        *)
(* max_tokens >= 1, no output piece other than the first begins with a     *)
(* clause mark.                                                            *)
C18_ClauseMarkStaysAttached ==
    (Done("ensure_max_tokens") /\ max_tokens >= 1 /\ count_tokens(text) > max_tokens) =>
        \A i \in 2..Len(result) :
            result[i] # <<>> => result[i][1] \notin ClauseMarks

(* C19: when the greedy merge pass of balance_segments runs, the result is *)
(* the greedy result with its last two chunks replaced by their            *)
(* concatenation exactly when the greedy result has at least 2 chunks, the *)
(* last chunk's estimate is below min_tokens and the estimate of the       *)
(* concatenation is at most max_tokens; otherwise it is the greedy result. *)
GreedyResult == GreedyMerge(Atomic(segments, max_tokens), 1, max_tokens, <<>>, <<>>, 0)

TailMergeApplies ==
    LET g == GreedyResult
        n == Len(g)
    IN  /\ n >= 2
        /\ count_tokens(g[n]) < min_tokens
        /\ count_tokens(g[n - 1] \o g[n]) <= max_tokens

C19_OnlyTailFixupUsesMin ==
    Done("balance_segments") =>
        LET atomic == Atomic(segments, max_tokens)
            g == GreedyMerge(atomic, 1, max_tokens, <<>>, <<>>, 0)
            n == Len(g)
        IN  Len(atomic) >= 2 =>
                IF /\ n >= 2
                   /\ count_tokens(g[n]) < min_tokens
                   /\ count_tokens(g[n - 1] \o g[n]) <= max_tokens
                THEN result = Append(SubSeq(g, 1, n - 2), g[n - 1] \o g[n])
                ELSE result = g

C19_Witness ==
    /\ Done("balance_segments")
    /\ Len(Atomic(segments, max_tokens)) >= 2
    /\ min_tokens <= max_tokens
    /\ TailMergeApplies
    /\ Len(result) = Len(GreedyResult) - 1

(* C15 (as claimed): in mode sentence, every chunk except the last has a   *)
(* token estimate of at least half of min_tokens.                          *)
C15_NonFinalAtLeastHalfMin ==
    (Done("split_sentences") /\ mode = SEGMENT_MODE_SENTENCE) =>
        \A i \in 1..(Len(result) - 1) : 2 * count_tokens(result[i]) >= min_tokens

(* C15 (amended): in mode sentence with max_tokens >= 1, every chunk       *)
(* except the last has a token estimate of at least 1.                     *)
C15_NonFinalHasTokens ==
    (Done("split_sentences") /\ mode = SEGMENT_MODE_SENTENCE /\ max_tokens >= 1) =>
        \A i \in 1..(Len(result) - 1) : count_tokens(result[i]) >= 1

C15_Witness ==
    /\ Done("split_sentences")
    /\ mode = SEGMENT_MODE_SENTENCE
    /\ max_tokens >= 1
    /\ HasChar(text, ClauseMarks)
    /\ Len(result) >= 2
    /\ 2 * count_tokens(result[1]) < min_tokens
    /\ count_tokens(result[1]) >= 1

(* C17: in mode clause, no returned chunk contains whitespace directly     *)
(* between two CJK characters: every such run became a hard break.         *)
BlankBetweenCjk(s) ==
    \E i, j \in DOMAIN s :
        /\ j > i + 1
        /\ s[i] \in CJK
        /\ s[j] \in CJK
        /\ \A k \in (i + 1)..(j - 1) : s[k] \in Whitespace

C17_EveryCjkGapBreaks ==
    (Done("split_sentences") /\ mode = SEGMENT_MODE_CLAUSE) =>
        \A i \in DOMAIN result : ~BlankBetweenCjk(result[i])

(* C16: every result returned by generate_audio_with_retry has the six     *)
(* fields that main unpacks, so main fails after the generation step only  *)
(* when a task raised.                                                     *)
C16_ResultsHaveSixFields ==
    /\ \A u \in Utts : upc[u] = "returned" => ret[u].fields = 6
    /\ mpc = "crashed" => \E u \in Utts : upc[u] = "raised"

(* C20: with --max-retries N, an utterance is sent at most N + 1 synthesis *)
(* requests.                                                               *)
C20_AtMostNPlusOneRequests ==
    \A u \in Utts : requests[u] <= arg_max_retries + 1

(* C21: when balance_segments is given segments without Latin letters and  *)
(* max_tokens >= 1 and returns two or more chunks, the token estimates of  *)
(* every two adjacent chunks add up to more than max_tokens, and the       *)
(* result is the greedy result: the tail fix-up changed nothing.           *)
NoLatin(segs) == \A i \in DOMAIN segs : ~HasChar(segs[i], Latin)

C21_AdjacentChunksCannotMerge ==
    (/\ Done("balance_segments")
     /\ NoLatin(segments)
     /\ max_tokens >= 1
     /\ Len(result) >= 2) =>
        /\ \A i \in 1..(Len(result) - 1) :
              count_tokens(result[i]) + count_tokens(result[i + 1]) > max_tokens
        /\ result = GreedyMerge(Atomic(segments, max_tokens), 1, max_tokens, <<>>, <<>>, 0)

C21_Witness ==
    /\ Done("balance_segments")
    /\ NoLatin(segments)
    /\ max_tokens >= 1
    /\ Len(result) >= 2
    /\ count_tokens(Last(result)) < min_tokens
    /\ count_tokens(Last(result)) >= 1

(* C22: a call of generate_audio_with_retry that found no file at          *)
(* output_path and returned success = False after all its attempts leaves  *)
(* no file at output_path.                                                 *)
C22_FailureLeavesNoFile ==
    \A u \in Utts :
        (upc[u] = "returned" /\ ret[u].status = "failed") => file[u] = "absent"

====
